---- MODULE Spec2Model ----
(***************************************************************************)
(* py-proj: a command-line scaffolder.  One invocation parses its flags,   *)
(* optionally creates a project tree under root, optionally cleans the     *)
(* known cache paths under root and optionally deletes root.               *)
(*                                                                         *)
(* Strings that the program takes apart (the python version) are modelled  *)
(* as sequences of one-character strings; paths are modelled relative to   *)
(* root as sequences of components (<<>> is root itself); a file's content *)
(* is a sequence of tokens.                                                *)
(***************************************************************************)
EXTENDS Naturals, Sequences, FiniteSets, TLC

\* ------------------------------------------------------------------ bounds
\* How many times the same command line is run against the same root.
MaxRuns == 2
\* The longest version string given with --python.
MaxVerLen == 6
\* How many of the listed cache paths exist when the first run starts.
MaxCaches == 1

\* ----------------------------------------------------------------- strings
Min(a, b) == IF a < b THEN a ELSE b

\* str::split('.') : the pieces between the dots, empty pieces included.
RECURSIVE Split(_)
Split(s) ==
    IF s = <<>> THEN << <<>> >>
    ELSE IF Head(s) = "." THEN << <<>> >> \o Split(Tail(s))
    ELSE LET r == Split(Tail(s)) IN << <<Head(s)>> \o Head(r) >> \o Tail(r)

\* Iterator::take(n)
Take(parts, n) == SubSeq(parts, 1, Min(n, Len(parts)))

\* [&str]::join(".")
RECURSIVE Join(_)
Join(parts) ==
    IF parts = <<>> THEN <<>>
    ELSE IF Len(parts) = 1 THEN Head(parts)
    ELSE Head(parts) \o <<".">> \o Join(Tail(parts))

\* str::replace('.', "")
IsNotDot(c) == c # "."
ReplaceDots(s) == SelectSeq(s, IsNotDot)

\* A plausible slip: keeping three components instead of two.
MmTakesThree(py) == Join(Take(Split(py), 3))
\* mm = py_full.split('.').take(2).collect::<Vec<_>>().join(".")
Mm(py) == Join(Take(Split(py), 2))

\* mm_nodec = mm.replace('.', "")
MmNodec(m) == ReplaceDots(m)

\* The fallback of detect_system_python.
DefaultPython == <<"3", ".", "1", "1", ".", "0">>

\* What the probe can print: nothing usable (fallback) or the interpreter's
\* own version.
DetectSystemPython == {DefaultPython, <<"3", ".", "1", "3", ".", "1">>}

\* ------------------------------------------------------------------- paths
Root == <<>>

Parent(p) == SubSeq(p, 1, Len(p) - 1)

\* q is p or lies under p.
Under(q, p) == Len(p) <= Len(q) /\ SubSeq(q, 1, Len(p)) = p

\* The directory skeleton of create_project, in the order it is created.
SkeletonDirs ==
    << <<"src">>, <<"tests">>, <<"Notebooks">>, <<".vscode">>,
       <<"src", "app_logging">> >>

\* The fixed list of clean_project, in its order.
dirs ==
    << <<".venv">>, <<"__pycache__">>, <<".pytest_cache">>, <<".mypy_cache">>,
       <<".ruff_cache">>, <<".ipynb_checkpoints">>, <<"build">>, <<"dist">>,
       <<"htmlcov">>, <<".coverage">>, <<".cache">>,
       <<"src", "__pycache__">>, <<"tests", "__pycache__">>,
       <<"Notebooks", ".ipynb_checkpoints">> >>

Coverage == <<".coverage">>

Range(s) == {s[k] : k \in 1..Len(s)}

CachePaths == Range(dirs)

\* One entry inside each listed cache path (what a recursive removal takes
\* along).
Inside(p) == p \o <<"x">>

\* What `uv venv` leaves in the environment it creates.
VenvCfg == <<".venv", "pyvenv.cfg">>

\* A file of the user that is no output of the tool and no cache.
Notes == <<"notes.txt">>

\* --------------------------------------------------------------- templates
\* The template catalog: each template is a deterministic map from its
\* parameters to text.  A static template is one token; a parametrized one
\* carries its parameters verbatim.
main_py == <<"main_py">>
vscode_launch_json == <<"vscode_launch_json">>
vscode_settings_json == <<"vscode_settings_json">>
vscode_tasks_json == <<"vscode_tasks_json">>
dotenv == <<"dotenv">>
envrc == <<"envrc">>
pyrefly_toml(project, py_full) == <<"pyrefly_toml", project>> \o py_full
pyrightconfig_json(mm) == <<"pyrightconfig_json">> \o mm
pyproject_toml(project, mm, mm_nodec) ==
    <<"pyproject_toml", project>> \o mm \o <<"py">> \o mm_nodec
gitignore == <<"gitignore">>
readme_md(project) == <<"readme_md", project>>
app_make_file_creator == <<"app_make_file_creator">>
app_logging_my_colored_formatter_py == <<"app_logging_my_colored_formatter_py">>
app_logging_config07_json == <<"app_logging_config07_json">>
app_logging_constants_py == <<"app_logging_constants_py">>
app_logging_glogger_py == <<"app_logging_glogger_py">>
app_logging_my_custom_json_class01_py == <<"app_logging_my_custom_json_class01_py">>
app_logging_my_filters_py == <<"app_logging_my_filters_py">>

\* ------------------------------------------------- ScaffoldPlan: the writes
W(path, content) == [path |-> path, content |-> content]

\* A plausible slip: the package marker written with the stub's text.
BasicSrcMarkerNotEmpty(plan) ==
    << W(<<"src", "__init__.py">>, main_py),
       W(<<"src", "main.py">>, main_py) >>
BasicSrcFiles(plan) ==
    << W(<<"src", "__init__.py">>, <<>>),
       W(<<"src", "main.py">>, main_py) >>

VscodeFiles(plan) ==
    << W(<<".vscode", "launch.json">>, vscode_launch_json),
       W(<<".vscode", "settings.json">>, vscode_settings_json),
       W(<<".vscode", "tasks.json">>, vscode_tasks_json) >>

EnvsFiles(plan) ==
    << W(<<".env">>, dotenv), W(<<".envrc">>, envrc) >>

PyreflyFiles(plan) ==
    << W(<<"pyrefly.toml">>, pyrefly_toml(plan.project, plan.py_full)) >>

PyrightFiles(plan) ==
    << W(<<"pyrightconfig.json">>, pyrightconfig_json(plan.mm)) >>

PyprojectFiles(plan) ==
    << W(<<"pyproject.toml">>,
         pyproject_toml(plan.project, plan.mm, plan.mm_nodec)) >>

GitignoreFiles(plan) == << W(<<".gitignore">>, gitignore) >>

ReadmeFiles(plan) == << W(<<"README.md">>, readme_md(plan.project)) >>

MakefileFiles(plan) == << W(<<"Makefile">>, app_make_file_creator) >>

AppLoggingBase == <<"src", "app_logging">>

AppLoggingFiles(plan) ==
    << W(AppLoggingBase \o <<"__init__.py">>, <<>>),
       W(AppLoggingBase \o <<"MyColoredFormatter.py">>,
         app_logging_my_colored_formatter_py),
       W(AppLoggingBase \o <<"config07.json">>, app_logging_config07_json),
       W(AppLoggingBase \o <<"constants.py">>, app_logging_constants_py),
       W(AppLoggingBase \o <<"glogger.py">>, app_logging_glogger_py),
       W(AppLoggingBase \o <<"myCustomJsonClass01.py">>,
         app_logging_my_custom_json_class01_py),
       W(AppLoggingBase \o <<"myFilters.py">>, app_logging_my_filters_py) >>

\* Every path a render operation of the plan writes (the paths do not depend
\* on the plan's fields).
NoPlan == [project |-> "", py_full |-> <<>>, mm |-> <<>>, mm_nodec |-> <<>>]

AllWrites ==
    BasicSrcFiles(NoPlan) \o VscodeFiles(NoPlan) \o EnvsFiles(NoPlan)
    \o PyreflyFiles(NoPlan) \o PyrightFiles(NoPlan) \o PyprojectFiles(NoPlan)
    \o GitignoreFiles(NoPlan) \o ReadmeFiles(NoPlan) \o AppLoggingFiles(NoPlan)
    \o MakefileFiles(NoPlan)

PlanPaths == {AllWrites[k].path : k \in 1..Len(AllWrites)}

\* -------------------------------------------------------------- filesystem
Absent == [kind |-> "absent", data |-> <<>>]
Dir == [kind |-> "dir", data |-> <<>>]
File(content) == [kind |-> "file", data |-> content]

Paths ==
    {Root} \cup Range(SkeletonDirs) \cup PlanPaths \cup CachePaths
    \cup {Inside(p) : p \in CachePaths} \cup {VenvCfg, Notes}

\* Path::is_dir, Path::is_file, Path::exists
is_dir(f, p) == f[p].kind = "dir"
is_file(f, p) == f[p].kind = "file"
exists(f, p) == f[p].kind # "absent"

\* fs::create_dir_all(p): a directory that is there is left alone; a missing
\* one is made after its parent has been (root's own parent is there); a
\* plain file at p or above it is an error.
RECURSIVE CreateDirAll(_, _)
CreateDirAll(f, p) ==
    IF is_dir(f, p) THEN [ok |-> TRUE, fs |-> f]
    ELSE IF is_file(f, p) THEN [ok |-> FALSE, fs |-> f]
    ELSE IF p = Root THEN [ok |-> TRUE, fs |-> [f EXCEPT ![p] = Dir]]
    ELSE LET r == CreateDirAll(f, Parent(p))
         IN IF r.ok THEN [ok |-> TRUE, fs |-> [r.fs EXCEPT ![p] = Dir]]
            ELSE [ok |-> FALSE, fs |-> f]

\* A plausible slip: the file opened for appending instead of truncated.
StoreAppends(f, path, content) ==
    [f EXCEPT ![path] = File(f[path].data \o content)]
\* File::create + write_all on a path whose parent exists: the file is
\* created or truncated and then holds exactly content.
Store(f, path, content) == [f EXCEPT ![path] = File(content)]

\* util::write(path, content).  fault names the call the operating system
\* fails ("none": it fails none); a path that is a directory, or that has a
\* plain file for an ancestor, fails without any fault.
Faults == {"create_dir_all", "create", "write_all"}

\* Where a sequence of n writes can meet a fault: nowhere, or at one of its
\* writes in one of its calls.
FaultPoints(n) == {<<0, "none">>} \cup ((1..n) \X Faults)

Write(f, path, content, fault) ==
    LET d == CreateDirAll(f, Parent(path)) IN
    IF fault = "create_dir_all" \/ ~d.ok THEN [ok |-> FALSE, fs |-> f]
    ELSE IF fault = "create" \/ d.fs[path].kind = "dir"
         THEN [ok |-> FALSE, fs |-> d.fs]
    ELSE IF fault = "write_all"
         THEN [ok |-> FALSE, fs |-> Store(d.fs, path, <<>>)]
    ELSE [ok |-> TRUE, fs |-> Store(d.fs, path, content)]

\* The writes ws one after the other, each `?`-propagated: the first failure
\* ends the sequence.  failAt is the position of the write that meets the
\* fault (0: none does); n counts the writes that returned Ok.
RECURSIVE WriteSeq(_, _, _, _)
WriteSeq(f, ws, failAt, fault) ==
    IF ws = <<>> THEN [ok |-> TRUE, fs |-> f, n |-> 0]
    ELSE LET r == Write(f, Head(ws).path, Head(ws).content,
                        IF failAt = 1 THEN fault ELSE "none")
         IN IF ~r.ok THEN [ok |-> FALSE, fs |-> r.fs, n |-> 0]
            ELSE LET rest == WriteSeq(r.fs, Tail(ws),
                                      IF failAt = 0 THEN 0 ELSE failAt - 1,
                                      fault)
                 IN [ok |-> rest.ok, fs |-> rest.fs, n |-> rest.n + 1]

\* The entries of S unlinked one after the other.
RECURSIVE RemoveEach(_, _)
RemoveEach(f, S) ==
    IF S = {} THEN f
    ELSE LET q == CHOOSE x \in S : TRUE
         IN RemoveEach([f EXCEPT ![q] = Absent], S \ {q})

\* fs::remove_dir_all(p) that succeeds: p and everything under it is gone.
RemoveDirAll(f, p) == RemoveEach(f, {q \in Paths : Under(q, p)})

\* fs::remove_dir_all(p) that fails part-way: entries under p are gone, p
\* itself is still there.
RemoveInside(f, p) == RemoveEach(f, {q \in Paths : Under(q, p) /\ q # p})

\* fs::remove_file(p) that succeeds.
RemoveFile(f, p) == [f EXCEPT ![p] = Absent]

\* ------------------------------------------------------------------ inputs
Bool == {TRUE, FALSE}

\* Option<T>: <<>> is None, <<v>> is Some(v).
None == <<>>
Some(v) == <<v>>

Chars == {"1", "3", "."}

\* The strings of at most n characters.
Strings(n) == UNION {[1..k -> Chars] : k \in 0..n}

Cli(create, clean, delete, yes, help, version, project, py) ==
    [create_project |-> create, clean_project |-> clean,
     delete_project |-> delete, yes |-> yes, help |-> help,
     version |-> version, project |-> project, py_full |-> py]

EmptyTree == [q \in Paths |-> IF q = Root THEN Dir ELSE Absent]
NoRoot == [q \in Paths |-> Absent]
RootIsFile == [q \in Paths |-> IF q = Root THEN File(<<"user">>) ELSE Absent]

\* A root whose listed cache paths in D are directories (each with an entry
\* inside), whose listed cache paths in F are plain files, and which holds
\* (user) the user's own src/main.py and notes.txt.
Tree(D, F, user) ==
    [q \in Paths |->
        IF q = Root \/ q \in D THEN Dir
        ELSE IF q \in F THEN File(<<"cache">>)
        ELSE IF \E p \in D : q = Inside(p) THEN File(<<"cache">>)
        ELSE IF q = VenvCfg /\ <<".venv">> \in D THEN File(<<"uv">>)
        ELSE IF \E p \in D \cup F : Under(p, q) THEN Dir
        ELSE IF user /\ q \in {Notes, <<"src", "main.py">>} THEN File(<<"user">>)
        ELSE IF user /\ q = <<"src">> THEN Dir
        ELSE Absent]

\* The root of the documented example: .venv, __pycache__ and .coverage
\* beside the user's files.
ExampleTree == Tree({<<".venv">>, <<"__pycache__">>}, {Coverage}, TRUE)

\* The roots that hold the user's files and at most MaxCaches of the listed
\* cache paths, each as a directory or as a plain file.
CacheTrees ==
    UNION {{Tree(D, E \ D, TRUE) : D \in SUBSET E} :
           E \in {X \in SUBSET CachePaths : Cardinality(X) <= MaxCaches}}

V3135 == <<"3", ".", "1", "3", ".", "5">>

\* The command lines and roots the model starts from:
\*  - every combination of the six flags, with and without --python, on a
\*    missing root, a root that is a plain file, an empty root and the
\*    example root;
\*  - --clean_project alone on every bounded cache tree;
\*  - every bounded --python string, with --project and an unconfirmed
\*    --delete_project, on an empty root.
Inputs ==
    {<<Cli(c, k, d, y, h, v, None, py), t>> :
        c \in Bool, k \in Bool, d \in Bool, y \in Bool, h \in Bool, v \in Bool,
        py \in {None, Some(V3135)},
        t \in {NoRoot, RootIsFile, EmptyTree, ExampleTree}}
    \cup
    {<<Cli(FALSE, TRUE, FALSE, FALSE, FALSE, FALSE, None, Some(V3135)), t>> :
        t \in CacheTrees}
    \cup
    {<<Cli(FALSE, FALSE, TRUE, FALSE, FALSE, FALSE, Some("myproj"), Some(py)),
       EmptyTree>> : py \in Strings(MaxVerLen)}

\* ------------------------------------------------------------------- state
VARIABLES
    cli,        \* the parsed command line (struct Cli)
    fs,         \* the tree at root: path -> node
    pc,         \* where main is
    status,     \* "running", or how the process ended: "ok" (0), "err"
    project,    \* main's resolved project name
    py_full,    \* main's resolved python version
    mm,         \* main's derived "X.Y"
    mm_nodec,   \* main's derived "XY"
    plan,       \* the ScaffoldPlan of create_project
    idx,        \* clean_project's position in dirs
    log,        \* what this run did and printed, in order
    written,    \* the paths util::write wrote in this run
    attempted,  \* the listed paths clean_project tried to remove in this run
    failed,     \* the listed paths whose removal failed in this run
    fs0,        \* the tree as this run found it
    runs,       \* how many runs were started
    snapCur,    \* the plan's files as this run's create_project left them
    snapPrev    \* the same of the run before, with its inputs

vars ==
    <<cli, fs, pc, status, project, py_full, mm, mm_nodec, plan, idx, log,
      written, attempted, failed, fs0, runs, snapCur, snapPrev>>

NoSnap == <<>>

Init ==
    /\ \E inp \in Inputs : cli = inp[1] /\ fs = inp[2]
    /\ pc = "main"
    /\ status = "running"
    /\ project = ""
    /\ py_full = <<>>
    /\ mm = <<>>
    /\ mm_nodec = <<>>
    /\ plan = NoPlan
    /\ idx = 1
    /\ log = <<>>
    /\ written = {}
    /\ attempted = {}
    /\ failed = {}
    /\ fs0 = fs
    /\ runs = 1
    /\ snapCur = NoSnap
    /\ snapPrev = NoSnap

\* -------------------------------------------------------------------- main
\* let no_action = !(create_project || clean_project || delete_project)
no_action(c) == ~(c.create_project \/ c.clean_project \/ c.delete_project)

\* A plausible slip: help shown only when no action flag is given.
ShowsHelpOnlyWithoutAction(c) == no_action(c)
\* if cli.help || no_action
ShowsHelp(c) == c.help \/ no_action(c)

\* `?` on a Result: Ok goes on to next, Err leaves main with the error.
\* A plausible slip: the Result dropped and the run going on.
TryIgnores(ok, next) == [pc |-> next, status |-> "running"]
Try(ok, next) ==
    IF ok THEN [pc |-> next, status |-> "running"]
    ELSE [pc |-> "exit", status |-> "err"]

\* The log of a step named name that ended ok or not.
Logged(name, ok) == IF ok THEN log \o <<name>> ELSE log \o <<name, "ERR">>

\* Where main goes after the create block, the clean block, the delete block.
AfterClean == IF cli.delete_project THEN "delete" ELSE "done"
AfterCreate == IF cli.clean_project THEN "clean" ELSE AfterClean
AfterResolve == IF cli.create_project THEN "create_dirs" ELSE AfterCreate

UnchangedRun == UNCHANGED <<cli, fs0, runs, snapPrev>>
UnchangedMain == UNCHANGED <<project, py_full, mm, mm_nodec>>
UnchangedClean == UNCHANGED <<idx, attempted, failed>>

\* if cli.version { println!(..); return Ok(()) }
print_version ==
    /\ pc = "main"
    /\ cli.version
    /\ log' = log \o <<"version">>
    /\ pc' = "exit"
    /\ status' = "ok"
    /\ UNCHANGED <<fs, plan, written, snapCur>>
    /\ UnchangedRun /\ UnchangedMain /\ UnchangedClean

\* if cli.help || no_action { print_help(); return Ok(()) }
print_help ==
    /\ pc = "main"
    /\ ~cli.version
    /\ ShowsHelp(cli)
    /\ log' = log \o <<"help">>
    /\ pc' = "exit"
    /\ status' = "ok"
    /\ UNCHANGED <<fs, plan, written, snapCur>>
    /\ UnchangedRun /\ UnchangedMain /\ UnchangedClean

\* "Resolve defaults" and "Derived versions used in templates";
\* env::current_dir()? comes first and may fail.
resolve ==
    /\ pc = "main"
    /\ ~cli.version
    /\ ~ShowsHelp(cli)
    /\ \E cwd \in Bool :
          LET t == Try(cwd, AfterResolve)
          IN /\ pc' = t.pc
             /\ status' = t.status
             /\ IF t.pc = "exit"
                THEN /\ log' = log \o <<"current_dir", "ERR">>
                     /\ UnchangedMain
                ELSE /\ project' = IF cli.project = None THEN "cwd_proj"
                                   ELSE cli.project[1]
                     /\ \E v \in (IF cli.py_full = None
                                  THEN DetectSystemPython
                                  ELSE {cli.py_full[1]}) :
                           /\ py_full' = v
                           /\ mm' = Mm(v)
                           /\ mm_nodec' = MmNodec(Mm(v))
                     /\ log' = IF cli.py_full = None
                               THEN log \o <<"detect_system_python">>
                               ELSE log
    /\ UNCHANGED <<fs, plan, written, snapCur>>
    /\ UnchangedRun /\ UnchangedClean

\* ---------------------------------------------------------- create_project
\* create_dir_all over ds, each `?`-propagated; failAt is the position of the
\* call the operating system fails (0: none).
RECURSIVE CreateDirs(_, _, _)
CreateDirs(f, ds, failAt) ==
    IF ds = <<>> THEN [ok |-> TRUE, fs |-> f]
    ELSE LET r == CreateDirAll(f, Head(ds))
         IN IF failAt = 1 \/ ~r.ok THEN [ok |-> FALSE, fs |-> f]
            ELSE CreateDirs(r.fs, Tail(ds),
                            IF failAt = 0 THEN 0 ELSE failAt - 1)

\* The directory skeleton, then the ScaffoldPlan built from main's values.
create_dirs ==
    /\ pc = "create_dirs"
    /\ \E failAt \in 0..Len(SkeletonDirs) :
       \E r \in {CreateDirs(fs, SkeletonDirs, failAt)} :
          LET t == Try(r.ok, "write_basic_src")
          IN /\ fs' = r.fs
             /\ pc' = t.pc
             /\ status' = t.status
             /\ log' = Logged("create_dirs", r.ok)
             /\ plan' = IF r.ok
                        THEN [project |-> project, py_full |-> py_full,
                              mm |-> mm, mm_nodec |-> mm_nodec]
                        ELSE plan
    /\ UNCHANGED <<written, snapCur>>
    /\ UnchangedRun /\ UnchangedMain /\ UnchangedClean

\* The plan's files as they are under root.
Snapshot(f) == [p \in PlanPaths |-> f[p]]

\* One render operation of the plan: its writes in order, the first failure
\* propagated.  last: create_project returns Ok(()) right after it, and main
\* prints "Project created."
Render(name, files, next, last) ==
    /\ pc = name
    /\ \E at \in FaultPoints(Len(files)) :
       \E r \in {WriteSeq(fs, files, at[1], at[2])} :
          LET t == Try(r.ok, next)
          IN /\ fs' = r.fs
             /\ pc' = t.pc
             /\ status' = t.status
             /\ log' = IF r.ok /\ last
                       THEN Logged(name, r.ok) \o <<"Project created.">>
                       ELSE Logged(name, r.ok)
             /\ written' = written \cup {files[k].path : k \in 1..r.n}
             /\ snapCur' = IF r.ok /\ last THEN Snapshot(r.fs) ELSE snapCur
    /\ UNCHANGED plan
    /\ UnchangedRun /\ UnchangedMain /\ UnchangedClean

\* The calls of create_project, each naming the call that follows it.
write_basic_src ==
    Render("write_basic_src", BasicSrcFiles(plan), "write_vscode", FALSE)
write_vscode ==
    Render("write_vscode", VscodeFiles(plan), "write_envs", FALSE)
write_envs ==
    Render("write_envs", EnvsFiles(plan), "write_pyrefly", FALSE)
write_pyrefly ==
    Render("write_pyrefly", PyreflyFiles(plan), "write_pyright", FALSE)
write_pyright ==
    Render("write_pyright", PyrightFiles(plan), "write_pyproject", FALSE)
write_pyproject ==
    Render("write_pyproject", PyprojectFiles(plan), "write_gitignore", FALSE)
write_gitignore ==
    Render("write_gitignore", GitignoreFiles(plan), "write_readme", FALSE)
write_readme ==
    Render("write_readme", ReadmeFiles(plan), "write_app_logging", FALSE)
write_app_logging ==
    Render("write_app_logging", AppLoggingFiles(plan), "install_uv_toolchain",
           FALSE)

\* What a successful `uv venv --python <v> .venv` leaves under root.
UvVenv(f) == Store(CreateDirAll(f, <<".venv">>).fs, VenvCfg, <<"uv">>)

\* run("uv", ["python", "install", py_full]) then
\* run("uv", ["venv", "--python", py_full, ".venv"]); either may fail to
\* start or exit non-zero, the second also after it made .venv.
install_uv_toolchain ==
    /\ pc = "install_uv_toolchain"
    /\ \E install \in {"ok", "fail"}, venv \in {"ok", "fail", "partial"} :
          LET venvOk == venv = "ok" /\ ~is_file(fs, <<".venv">>)
              ok == install = "ok" /\ venvOk
              t == Try(ok, "wirte_makefile")
          IN /\ fs' = IF install = "fail" \/ is_file(fs, <<".venv">>)
                         \/ venv = "fail"
                      THEN fs
                      ELSE IF venv = "partial"
                      THEN CreateDirAll(fs, <<".venv">>).fs
                      ELSE UvVenv(fs)
             /\ pc' = t.pc
             /\ status' = t.status
             /\ log' = IF install = "fail"
                       THEN log \o <<"uv python install", "ERR">>
                       ELSE Logged("uv venv", venvOk)
    /\ UNCHANGED <<plan, written, snapCur>>
    /\ UnchangedRun /\ UnchangedMain /\ UnchangedClean

wirte_makefile ==
    Render("wirte_makefile", MakefileFiles(plan), AfterCreate, TRUE)

\* ----------------------------------------------------------- clean_project
\* `let _ = remove_..(&p)`: the Result is dropped, the loop goes on.
\* A plausible slip: the Result propagated with `?`.
RemovalPropagated(ok) == ok
RemovalGoesOn(ok) == TRUE

\* `rel == ".coverage"`: the one listed entry that is removed as a plain file.
\* A plausible slip: the test left out, every listed plain file removed.
IsAnyEntry(rel) == TRUE
IsCoverageEntry(rel) == rel = Coverage

\* One turn of `for rel in dirs`.
clean_step ==
    /\ pc = "clean"
    /\ idx <= Len(dirs)
    /\ LET rel == dirs[idx] IN
       \E outcome \in {"ok", "fail", "partial"} :
          LET tried == is_dir(fs, rel)
                       \/ (is_file(fs, rel) /\ IsCoverageEntry(rel))
              ok == ~tried \/ outcome = "ok"
              t == Try(RemovalGoesOn(ok), "clean")
          IN /\ fs' = IF is_dir(fs, rel)
                      THEN IF outcome = "ok" THEN RemoveDirAll(fs, rel)
                           ELSE IF outcome = "partial"
                           THEN RemoveInside(fs, rel)
                           ELSE fs
                      ELSE IF is_file(fs, rel) /\ IsCoverageEntry(rel)
                      THEN IF outcome = "ok" THEN RemoveFile(fs, rel) ELSE fs
                      ELSE fs
             /\ attempted' = IF tried THEN attempted \cup {rel} ELSE attempted
             /\ failed' = IF ok THEN failed ELSE failed \cup {rel}
             /\ log' = IF is_dir(fs, rel) THEN log \o <<"rm -rf">>
                       ELSE IF tried THEN log \o <<"rm">>
                       ELSE log
             /\ pc' = t.pc
             /\ status' = t.status
    /\ idx' = idx + 1
    /\ UNCHANGED <<plan, written, snapCur>>
    /\ UnchangedRun /\ UnchangedMain

\* The loop is over: Ok(()), and main prints "Project cleaned."
clean_return ==
    /\ pc = "clean"
    /\ idx > Len(dirs)
    /\ log' = log \o <<"Project cleaned.">>
    /\ pc' = AfterClean
    /\ UNCHANGED <<fs, status, plan, written, snapCur>>
    /\ UnchangedRun /\ UnchangedMain /\ UnchangedClean

\* ---------------------------------------------------------- delete_project
\* if !cli.yes { bail!("Refusing to delete without confirmation. ..") }
\* A plausible slip: the confirmation not asked for.
RefusesNever(c) == FALSE
Refuses(c) == ~c.yes

delete_refused ==
    /\ pc = "delete"
    /\ Refuses(cli)
    /\ log' = log \o <<"Refusing to delete without confirmation.", "ERR">>
    /\ pc' = "exit"
    /\ status' = "err"
    /\ UNCHANGED <<fs, plan, written, snapCur>>
    /\ UnchangedRun /\ UnchangedMain /\ UnchangedClean

\* fs::remove_dir_all(root).with_context(..)?: a failed removal is the
\* error of delete_project.
\* A plausible slip: the failure swallowed as in clean_project.
DeleteSwallows(removed) == TRUE
DeleteOk(removed) == removed

delete_project ==
    /\ pc = "delete"
    /\ ~Refuses(cli)
    /\ IF exists(fs, Root)
       THEN \E outcome \in {"ok", "fail", "partial"} :
               LET removed == outcome = "ok" /\ is_dir(fs, Root)
                   t == Try(DeleteOk(removed), "done")
               IN /\ fs' = IF removed THEN RemoveDirAll(fs, Root)
                           ELSE IF outcome = "partial" /\ is_dir(fs, Root)
                           THEN RemoveInside(fs, Root)
                           ELSE fs
                  /\ pc' = t.pc
                  /\ status' = t.status
                  /\ log' = IF DeleteOk(removed)
                            THEN log \o <<"rm -rf root", "Project deleted.">>
                            ELSE log \o <<"rm -rf root", "ERR">>
       ELSE /\ fs' = fs
            /\ pc' = "done"
            /\ status' = status
            /\ log' = log \o <<"SKIP", "Project deleted.">>
    /\ UNCHANGED <<plan, written, snapCur>>
    /\ UnchangedRun /\ UnchangedMain /\ UnchangedClean

\* The closing Ok(()) of main: exit status 0.
main_ok ==
    /\ pc = "done"
    /\ pc' = "exit"
    /\ status' = "ok"
    /\ UNCHANGED <<fs, log, plan, written, snapCur>>
    /\ UnchangedRun /\ UnchangedMain /\ UnchangedClean

\* ------------------------------------------------------------- environment
\* The same command line is run again on the root as the last run, which
\* exited 0, left it.
rerun ==
    /\ pc = "exit"
    /\ status = "ok"
    /\ runs < MaxRuns
    /\ runs' = runs + 1
    /\ pc' = "main"
    /\ status' = "running"
    /\ project' = ""
    /\ py_full' = <<>>
    /\ mm' = <<>>
    /\ mm_nodec' = <<>>
    /\ plan' = NoPlan
    /\ idx' = 1
    /\ log' = <<>>
    /\ written' = {}
    /\ attempted' = {}
    /\ failed' = {}
    /\ fs0' = fs
    /\ snapCur' = NoSnap
    /\ snapPrev' = IF snapCur = NoSnap THEN NoSnap
                   ELSE <<[files |-> snapCur, project |-> plan.project,
                           py_full |-> plan.py_full]>>
    /\ UNCHANGED <<cli, fs>>

Next ==
    \/ print_version
    \/ print_help
    \/ resolve
    \/ create_dirs
    \/ write_basic_src
    \/ write_vscode
    \/ write_envs
    \/ write_pyrefly
    \/ write_pyright
    \/ write_pyproject
    \/ write_gitignore
    \/ write_readme
    \/ write_app_logging
    \/ install_uv_toolchain
    \/ wirte_makefile
    \/ clean_step
    \/ clean_return
    \/ delete_refused
    \/ delete_project
    \/ main_ok
    \/ rerun

Spec == Init /\ [][Next]_vars

\* ------------------------------------------------------------------ claims
Last(s) == s[Len(s)]
Logs(e) == e \in Range(log)
Refusal == "Refusing to delete without confirmation."
Created == Len(log) > 0 /\ Last(log) = "Project created."

\* The generated file set as the interface section lists it.
GeneratedFileSet ==
    { <<"src", "__init__.py">>, <<"src", "main.py">>,
      <<".vscode", "launch.json">>, <<".vscode", "settings.json">>,
      <<".vscode", "tasks.json">>, <<".env">>, <<".envrc">>,
      <<"pyrefly.toml">>, <<"pyrightconfig.json">>, <<"pyproject.toml">>,
      <<".gitignore">>, <<"README.md">>, <<"Makefile">>,
      <<"src", "app_logging", "__init__.py">>,
      <<"src", "app_logging", "MyColoredFormatter.py">>,
      <<"src", "app_logging", "config07.json">>,
      <<"src", "app_logging", "constants.py">>,
      <<"src", "app_logging", "glogger.py">>,
      <<"src", "app_logging", "myCustomJsonClass01.py">>,
      <<"src", "app_logging", "myFilters.py">> }

FilesOf(f) == {q \in Paths : is_file(f, q)}

\* C1, as claimed: a run that requests delete without --yes, whatever else
\* it requests, ends with the tree under root as it found it.
C1_UnconfirmedDeleteLeavesRootAsFound ==
    (cli.delete_project /\ ~cli.yes /\ pc = "exit") => fs = fs0

\* C1, amended: a run that requests delete without --yes never removes root;
\* unless --version or --help answers it, it ends in an error, and once it
\* has resolved its parameters and its create (if requested) has succeeded
\* that error is the refusal, raised at the delete step, which changes
\* nothing.  Create and clean, when requested too, have run by then: only
\* without them is the tree at exit the tree the run found.
C1_RefusalChangesNothing ==
    /\ [](cli.delete_project /\ ~cli.yes =>
            /\ ~Logs("rm -rf root")
            /\ ~Logs("SKIP")
            /\ ~Logs("Project deleted.")
            /\ (~cli.create_project /\ ~cli.clean_project => fs = fs0)
            /\ (cli.version \/ cli.help => fs = fs0)
            /\ (pc = "exit" /\ ~cli.version /\ ~cli.help => status = "err")
            /\ ((pc = "exit" /\ project # ""
                 /\ (cli.create_project => Logs("Project created.")))
                    => Logs(Refusal)))
    /\ [][pc = "delete" /\ ~cli.yes =>
            fs' = fs /\ status' = "err" /\ pc' = "exit"
            /\ log' = log \o <<Refusal, "ERR">>]_vars

\* C1's case: create ran and changed the tree, then the delete was refused.
C1_RefusedAfterCreate ==
    /\ pc = "exit"
    /\ Logs(Refusal)
    /\ Logs("Project created.")
    /\ fs # fs0

\* C2, as claimed: when toolchain provisioning starts, every file of the
\* generated file set, Makefile included, has been written.
C2_ProvisioningIsLast ==
    pc = "install_uv_toolchain" => GeneratedFileSet \subseteq written

\* C3: a create that succeeds on an empty (or missing) root has written
\* exactly the generated file set; the files under root are those and what
\* uv put into .venv; the two package markers are empty.
C3_FreshCreateFileSet ==
    /\ (Logs("Project created.") /\ fs0 \in {EmptyTree, NoRoot}
            => written = GeneratedFileSet)
    /\ (Created /\ fs0 \in {EmptyTree, NoRoot} =>
            /\ FilesOf(fs) = GeneratedFileSet \cup {VenvCfg}
            /\ fs[<<"src", "__init__.py">>] = File(<<>>)
            /\ fs[<<"src", "app_logging", "__init__.py">>] = File(<<>>))

C3_FreshCreateDone ==
    /\ Created
    /\ fs0 = EmptyTree
    /\ Cardinality(written) = 20

\* C4, as claimed: every listed path that exists has its removal attempted
\* (read on the paths clean has examined and that are still there).
C4_EveryExistingEntryAttempted ==
    pc = "clean" =>
        \A k \in 1..(idx - 1) :
            exists(fs, dirs[k]) => dirs[k] \in attempted

Removable(f, rel) == is_dir(f, rel) \/ (is_file(f, rel) /\ rel = Coverage)

\* C4, amended: clean examines the 14 listed paths in order and never stops
\* early, whichever removals fail; the removal of each one that is a
\* directory, and of .coverage when it is a plain file, is attempted (a
\* plain file at another listed path is not); then it returns success.
C4_CleanNeverAborts ==
    /\ [](pc = "clean" =>
            /\ status = "running"
            /\ idx \in 1..(Len(dirs) + 1)
            /\ failed \subseteq attempted
            /\ attempted \subseteq {dirs[k] : k \in 1..(idx - 1)}
            /\ \A k \in 1..(idx - 1) :
                  Removable(fs, dirs[k]) => dirs[k] \in failed)
    /\ [][pc = "clean" /\ idx <= Len(dirs) =>
            /\ pc' = "clean"
            /\ idx' = idx + 1
            /\ status' = "running"
            /\ (dirs[idx] \in attempted' <=> Removable(fs, dirs[idx]))]_vars
    /\ [][pc = "clean" /\ idx > Len(dirs) =>
            /\ pc' \in {"delete", "done"}
            /\ status' = "running"
            /\ log' = log \o <<"Project cleaned.">>]_vars

\* C4's case: removals failed and clean still ran to its end.
C4_CleanedDespiteFailures ==
    /\ Logs("Project cleaned.")
    /\ Cardinality(failed) >= 2
    /\ idx = Len(dirs) + 1

\* The paths that are no listed cache path and inside none.
Unlisted == {q \in Paths : \A p \in CachePaths : ~Under(q, p)}

\* C5: a turn of clean changes nothing outside the listed path it is at; a
\* directory there goes with everything under it, .coverage goes also as a
\* plain file (unless the removal fails); a plain file at another listed
\* path, and a missing one, leave the tree as it is.  So a run that only
\* cleans leaves every path that is not listed or inside a listed one alone.
C5_CleanRemovesOnlyListed ==
    /\ [][pc = "clean" /\ idx <= Len(dirs) =>
            LET rel == dirs[idx] IN
            /\ (fs' # fs => \A q \in Paths : ~Under(q, rel) => fs'[q] = fs[q])
            /\ (is_dir(fs, rel) /\ rel \notin failed' =>
                    \A q \in Paths : Under(q, rel) => fs'[q] = Absent)
            /\ (is_file(fs, rel) /\ rel = Coverage /\ rel \notin failed' =>
                    fs'[rel] = Absent)
            /\ (is_file(fs, rel) /\ rel # Coverage => fs' = fs)
            /\ (~exists(fs, rel) => fs' = fs)]_vars
    /\ [][pc = "clean" /\ idx > Len(dirs) => fs' = fs]_vars
    /\ [](~cli.create_project /\ ~Logs("rm -rf root") =>
            (fs # fs0 => \A q \in Unlisted : fs[q] = fs0[q]))

\* C5's case: the example root, cleaned.
C5_ExampleCleaned ==
    /\ fs0 = ExampleTree
    /\ ~cli.create_project
    /\ Logs("Project cleaned.")
    /\ ~exists(fs, <<".venv">>)
    /\ ~exists(fs, <<"__pycache__">>)
    /\ ~exists(fs, Coverage)
    /\ fs[<<"src", "main.py">>] = File(<<"user">>)

\* C6: a confirmed delete of a root that exists either leaves nothing at or
\* under root and goes on, or ends the run with the removal's error; of a
\* root that does not exist it reports the skip, changes nothing and goes
\* on; going on ends the run with exit status 0.
C6_ConfirmedDelete ==
    /\ [][pc = "delete" /\ cli.yes =>
            IF exists(fs, Root)
            THEN \/ /\ \A q \in Paths : fs'[q] = Absent
                    /\ pc' = "done"
                    /\ status' = "running"
                    /\ log' = log \o <<"rm -rf root", "Project deleted.">>
                 \/ /\ pc' = "exit"
                    /\ status' = "err"
                    /\ log' = log \o <<"rm -rf root", "ERR">>
            ELSE /\ fs' = fs
                 /\ pc' = "done"
                 /\ status' = "running"
                 /\ log' = log \o <<"SKIP", "Project deleted.">>]_vars
    /\ [][pc = "done" => pc' = "exit" /\ status' = "ok" /\ fs' = fs]_vars

\* C6's case: the example root, deleted, the run over with exit status 0.
C6_ExampleDeleted ==
    /\ fs0 = ExampleTree
    /\ pc = "exit"
    /\ status = "ok"
    /\ Logs("Project deleted.")
    /\ fs = NoRoot

\* C7: a run with --version, or with --help, or with no action flag, only
\* prints (the version if --version is there, else the help) and exits 0:
\* no write, no removal, no probe, no uv, the tree as the run found it.
C7_VersionAndHelpOnlyPrint ==
    (cli.version \/ cli.help \/ no_action(cli)) =>
        /\ fs = fs0
        /\ written = {}
        /\ attempted = {}
        /\ pc \in {"main", "exit"}
        /\ (pc = "main" => log = <<>> /\ status = "running")
        /\ (pc = "exit" =>
                /\ status = "ok"
                /\ log = IF cli.version THEN <<"version">> ELSE <<"help">>)

\* C7's case: --help beside every action flag and --yes.
C7_HelpWithActions ==
    /\ pc = "exit"
    /\ cli.help /\ ~cli.version
    /\ cli.create_project /\ cli.clean_project /\ cli.delete_project /\ cli.yes
    /\ fs0 = ExampleTree

CreateEvents ==
    {"create_dirs", "write_basic_src", "write_vscode", "write_envs",
     "write_pyrefly", "write_pyright", "write_pyproject", "write_gitignore",
     "write_readme", "write_app_logging", "uv python install", "uv venv",
     "wirte_makefile", "Project created."}
CleanEvents == {"rm -rf", "rm", "Project cleaned."}
DeleteEvents == {Refusal, "rm -rf root", "SKIP", "Project deleted."}

Stage(e) ==
    IF e \in CreateEvents THEN 1
    ELSE IF e \in CleanEvents THEN 2
    ELSE IF e \in DeleteEvents THEN 3
    ELSE 0

\* C8: what a run does is in the order create, clean, delete; an error is
\* the last thing of the run, which then is over with a non-zero status;
\* a run that exits 0 has done every action it was asked for.
C8_OrderAndFirstFailureEnds ==
    /\ \A i \in 1..Len(log) : \A j \in i..Len(log) :
          log[i] # "ERR" /\ log[j] # "ERR" => Stage(log[i]) <= Stage(log[j])
    /\ \A k \in 1..Len(log) :
          log[k] = "ERR" => k = Len(log) /\ status = "err" /\ pc = "exit"
    /\ (status = "err" => pc = "exit" /\ Last(log) = "ERR")
    /\ (status = "ok" /\ ~cli.version /\ ~ShowsHelp(cli) =>
            /\ (cli.create_project <=> Logs("Project created."))
            /\ (cli.clean_project <=> Logs("Project cleaned."))
            /\ (cli.delete_project <=> Logs("Project deleted.")))

\* C8's case: create, clean and delete requested, create failed in a render
\* step: nothing was cleaned and nothing deleted.
C8_CreateFailedNothingAfter ==
    /\ cli.create_project /\ cli.clean_project /\ cli.delete_project /\ cli.yes
    /\ fs0 = ExampleTree
    /\ status = "err"
    /\ Logs("write_envs")
    /\ ~Logs("write_pyrefly")
    /\ is_dir(fs, <<".venv">>)

\* C9: when create has succeeded in the run before and succeeds again with
\* the same project and python version, the plan's files are, path by path
\* and content by content, what they were.
C9_CreateTwiceSameFiles ==
    (/\ snapPrev # NoSnap
     /\ snapCur # NoSnap
     /\ snapPrev[1].project = plan.project
     /\ snapPrev[1].py_full = plan.py_full)
        => snapCur = snapPrev[1].files

\* C9's case: the second create, over files the first one left.
C9_SecondCreate ==
    /\ runs = 2
    /\ snapPrev # NoSnap
    /\ snapCur # NoSnap
    /\ snapPrev[1].py_full = plan.py_full
    /\ ~cli.delete_project
    /\ Created

RenderSteps ==
    {"write_basic_src", "write_vscode", "write_envs", "write_pyrefly",
     "write_pyright", "write_pyproject", "write_gitignore", "write_readme",
     "write_app_logging", "install_uv_toolchain", "wirte_makefile"}

\* py is X.Y.Z with its two dots at i and j.
IsXYZ(py, i, j) ==
    /\ 1 < i /\ i + 1 < j /\ j < Len(py)
    /\ \A k \in 1..Len(py) : py[k] = "." <=> k \in {i, j}

\* C10: for a python version X.Y.Z, mm is X.Y and mm_nodec is XY ("3.13.5"
\* gives "3.13" and "313"); the plan holds main's values, and holds them in
\* every render operation.
C10_DerivedVersions ==
    /\ \A i \in 1..Len(py_full) : \A j \in 1..Len(py_full) :
          IsXYZ(py_full, i, j) =>
              /\ mm = SubSeq(py_full, 1, j - 1)
              /\ mm_nodec = SubSeq(py_full, 1, i - 1)
                            \o SubSeq(py_full, i + 1, j - 1)
    /\ (py_full = V3135 =>
            mm = <<"3", ".", "1", "3">> /\ mm_nodec = <<"3", "1", "3">>)
    /\ (pc \in RenderSteps =>
            plan = [project |-> project, py_full |-> py_full,
                    mm |-> mm, mm_nodec |-> mm_nodec])

\* C10's case: 3.13.5 in the plan of a render operation.
C10_PlanHolds313 ==
    /\ pc = "write_pyproject"
    /\ plan.py_full = V3135
    /\ plan.mm_nodec = <<"3", "1", "3">>
====
